---- MODULE Spec2Model ----
(***************************************************************************)
(* Model of two liquid-dsp objects:                                        *)
(*   - firpfbch (src/multicarrier/src/firpfbch.c): the finite impulse      *)
(*     response polyphase filterbank channelizer, its create / execute /   *)
(*     destroy operations;                                                 *)
(*   - gmskdem (src/modem/src/gmskdem.c): the GMSK demodulator, its        *)
(*     create / reset / demodulate operations.                             *)
(*                                                                         *)
(* Complex samples of a channelizer with M channels are kept exactly, as   *)
(* elements of Z[zeta], zeta = exp(2*pi*i/M): a sample is the function     *)
(* c \in [0..M-1 -> Int] standing for  SUM_k c[k]*zeta^k.  Multiplying by   *)
(* zeta^j rotates the coefficients, so the size-M inverse transform is     *)
(* exact.  A division by a real number is kept as a fraction [num, den].   *)
(***************************************************************************)
EXTENDS Integers, Sequences, FiniteSets, TLC

\* ------------------------------------------------------------------ bounds
MaxM == 2          \* channelizer: largest number of channels
MaxDelay == 2      \* channelizer: largest filter delay m
MaxBlocks == 2     \* channelizer: execute calls per instance
GMaxK == 3         \* demodulator: largest samples/symbol k
GMaxDelay == 1     \* demodulator: largest symbol delay m
GMaxSymbols == 3   \* demodulator: demodulate calls since the last reset

\* The filter-kind and mode flags (liquid.h macros); one value of each that
\* is none of the named ones.
NyquistFlags == {"NYQUIST", "ROOTNYQUIST", "BADKIND"}
TypeFlags == {"ANALYZER", "SYNTHESIZER", "BADTYPE"}
Betas == {"beta"}

\* --------------------------------------------------- exact complex numbers
CZero(M) == [k \in 0..(M-1) |-> 0]
COne(M) == [k \in 0..(M-1) |-> IF k = 0 THEN 1 ELSE 0]
CAdd(a, b) == [k \in DOMAIN a |-> a[k] + b[k]]
\* real * complex
CScale(r, a) == [k \in DOMAIN a |-> r * a[k]]
\* a * zeta^j
CRot(a, j, M) == [k \in 0..(M-1) |-> a[(k - j) % M]]

RECURSIVE CSum(_, _, _)
\* f[0] + ... + f[n-1]
CSum(f, n, M) == IF n = 0 THEN CZero(M) ELSE CAdd(CSum(f, n-1, M), f[n-1])

\* value / d, kept as a fraction
CDiv(a, d) == [num |-> a, den |-> d]
\* value as it is (no scaling)
CAsIs(a) == [num |-> a, den |-> 1]

\* Channel symbols fed to execute: 0 and 1.
Symbols(M) == {CZero(M), COne(M)}
Blocks(M) == [0..(M-1) -> Symbols(M)]

\* Uninitialised memory (a fresh malloc block, a read outside an array) holds
\* one of these values in every coefficient.
Garbage == {0, 5}
OtherGarbage(g) == CHOOSE v \in Garbage : v # g
CJunk(g, M) == [k \in 0..(M-1) |-> g]

\* ------------------------------------------------- collaborators (library)
\* fir_filter_crcf: taps h[0..n-1] and a delay line w[0..n-1], w[0] the newest
\* sample; a new filter's delay line is zero.
FirCreate(taps, n, M) ==
    [h |-> [k \in 0..(n-1) |-> taps[k]], w |-> [k \in 0..(n-1) |-> CZero(M)]]

\* push: the delay line advances by one sample, the oldest is dropped
FirPush(f, v) ==
    [f EXCEPT !.w = [k \in DOMAIN f.w |-> IF k = 0 THEN v ELSE f.w[k-1]]]

FirLen(f) == Cardinality(DOMAIN f.h)

\* execute: dot product of the delay line with the taps
FirExecute(f, M) == CSum([k \in DOMAIN f.h |-> CScale(f.h[k], f.w[k])], FirLen(f), M)

\* The transform plan bound to (X, x), FFTW_BACKWARD / FFT_REVERSE: the
\* unnormalised inverse transform  x[n] = SUM_k X[k] * zeta^(k*n).
FftExecute(XX, M) ==
    [n \in 0..(M-1) |-> CSum([k \in 0..(M-1) |-> CRot(XX[k], (k*n) % M, M)], M, M)]

\* Filter design (fir_kaiser_window with h_len+1 taps, design_rrc_filter with
\* 2*k*m+1 taps): one real tap per index of h[0..h_len].  The tap values stand
\* in for the designed response; they are pairwise distinct and nonzero so
\* that every tap of a branch identifies the prototype index it came from.
DesignTap(nyquist, j) == IF nyquist = "NYQUIST" THEN j + 1 ELSE 0 - (j + 1)

\* ------------------------------------------------------- firpfbch_create
\* variant: the delay check lets m = 0 through
InvalidDelay_m(m) == m < 0
\* line 57: if (_m < 1)
InvalidDelay(m) == m < 1

\* lines 63-71: neither FIRPFBCH_NYQUIST nor FIRPFBCH_ROOTNYQUIST
UnsupportedNyquist(nyquist) == ~(nyquist = "NYQUIST" \/ nyquist = "ROOTNYQUIST")

\* line 61: h_len = 2*m*num_channels
HLen(M, m) == 2 * m * M

\* line 62, 65, 67: float h[h_len+1], filled by the designer
DesignPrototype(M, m, nyquist) == [j \in 0..HLen(M, m) |-> DesignTap(nyquist, j)]

\* lines 77, 87: h_sub_len = h_len / num_channels
HSubLen(M, m) == HLen(M, m) \div M

\* an element of h as the code reads it
ReadH(hh, j, g) == IF j \in DOMAIN hh THEN hh[j] ELSE g

\* line 81: h_sub[n] = h[i + n*num_channels]
SynthesizerIndex(i, n, M) == i + n * M

\* variant: the Analyzer offset + 1 left out
AnalyzerIndex_m(i, n, M) == i + n * M
\* line 94: h_sub[n+1] = h[i + 1 + n*num_channels]
AnalyzerIndex(i, n, M) == i + 1 + n * M

\* line 75: the branch layout create builds for a type flag
CreateLayout(type) == IF type = "SYNTHESIZER" THEN "synthesizer" ELSE "analyzer"

\* lines 75-98: the bank of sub-sampled filters
CreateBank(hh, M, m, type, g) ==
    LET sub == HSubLen(M, m) IN
    IF CreateLayout(type) = "synthesizer"
    THEN [i \in 0..(M-1) |->
            FirCreate([n \in 0..(sub-1) |-> ReadH(hh, SynthesizerIndex(i, n, M), g)],
                      sub, M)]
    ELSE [i \in 0..(M-1) |->
            FirCreate([n \in 0..sub |->
                         IF n = 0 THEN 0
                         ELSE ReadH(hh, AnalyzerIndex(i, n-1, M), g)],
                      sub + 1, M)]

\* lines 79-97: the indices of h the two loops read
CreateReads(M, m, type) ==
    LET sub == HSubLen(M, m) IN
    IF CreateLayout(type) = "synthesizer"
    THEN {SynthesizerIndex(i, n, M) : i \in 0..(M-1), n \in 0..(sub-1)}
    ELSE {AnalyzerIndex(i, n, M) : i \in 0..(M-1), n \in 0..(sub-1)}

\* Resources: the object, the bank array, the two buffers, the transform plan
\* and one filter per channel.
ResObject == <<"c", 0>>
ResBank == <<"bank", 0>>
ResTime == <<"x", 0>>
ResFreq == <<"X", 0>>
ResFft == <<"fft", 0>>
ResFilter(i) == <<"filter", i>>
AllResources ==
    {ResObject, ResBank, ResTime, ResFreq, ResFft} \cup {ResFilter(i) : i \in 0..(MaxM-1)}

\* lines 42, 50: allocated before the arguments are checked
CreateEarlyAllocs == {ResObject, ResBank}

\* lines 83/96, 106, 107, 111/113: allocated by a create that goes through
CreateLateAllocs(M) == {ResFilter(i) : i \in 0..(M-1)} \cup {ResTime, ResFreq, ResFft}

\* ------------------------------------------------------ firpfbch_destroy
\* variant: destroy forgets the frequency buffer
DestroyOrder_m(M) ==
    [i \in 1..M |-> ResFilter(i-1)] \o <<ResBank, ResFft, ResTime, ResObject>>
\* lines 122-133: what destroy releases, in the order of the code
DestroyOrder(M) ==
    [i \in 1..M |-> ResFilter(i-1)] \o <<ResBank, ResFft, ResTime, ResFreq, ResObject>>

RECURSIVE ReleaseAll(_, _)
ReleaseAll(rel, order) ==
    IF order = <<>> THEN rel
    ELSE ReleaseAll([rel EXCEPT ![Head(order)] = @ + 1], Tail(order))

\* ------------------------------------------------------ firpfbch_execute
\* An execute works on st = [bank, X, x, y, log]: the filter bank, the two
\* scratch buffers, the caller's output block and the log of the filter pushes
\* made so far in the call, <<branch, sample>> in order.

RECURSIVE SynthesizerLoop(_, _, _)
\* lines 158-164, iterations i .. M-1
SynthesizerLoop(st, i, M) ==
    IF i >= M THEN st
    ELSE LET f == FirPush(st.bank[i], st.x[i])                     \* line 159
             v == FirExecute(f, M)                                 \* line 160
         IN  SynthesizerLoop(
                 [st EXCEPT !.bank[i] = f,
                            !.y[i] = CDiv(v, M),                   \* line 163
                            !.log = Append(@, <<i, st.x[i]>>)],
                 i + 1, M)

\* variant: the division by num_channels left out
SynthesizerExecute_m(st, in, M) ==
    LET s1 == [st EXCEPT !.X = in]
        s2 == [s1 EXCEPT !.x = FftExecute(s1.X, M)]
        s3 == SynthesizerLoop(s2, 0, M)
    IN  [s3 EXCEPT !.y = [i \in 0..(M-1) |-> CAsIs(s3.y[i].num)]]
\* lines 142-165
SynthesizerExecute(st, in, M) ==
    LET s1 == [st EXCEPT !.X = in]                       \* line 147: memmove
        s2 == [s1 EXCEPT !.x = FftExecute(s1.X, M)]      \* lines 150-154
    IN  SynthesizerLoop(s2, 0, M)

\* variant: branches taken in input order
AnalyzerBranch_m(i, M) == i
\* line 175: b = num_channels-i-1
AnalyzerBranch(i, M) == M - i - 1

RECURSIVE AnalyzerLoop(_, _, _, _)
\* lines 174-178, iterations i .. M-1
AnalyzerLoop(st, in, i, M) ==
    IF i >= M THEN st
    ELSE LET b == AnalyzerBranch(i, M)
             f == FirPush(st.bank[b], in[i])                       \* line 176
         IN  AnalyzerLoop(
                 [st EXCEPT !.bank[b] = f,
                            !.X[i] = FirExecute(f, M),             \* line 177
                            !.log = Append(@, <<b, in[i]>>)],
                 in, i + 1, M)

\* variant: the transform run before the filter bank has filled X
AnalyzerExecute_m(st, in, M) ==
    LET s1 == [st EXCEPT !.x = FftExecute(st.X, M)]
        s2 == AnalyzerLoop(s1, in, 0, M)
    IN  [s2 EXCEPT !.y = [i \in 0..(M-1) |-> CAsIs(s2.x[i])]]
\* lines 167-189
AnalyzerExecute(st, in, M) ==
    LET s1 == AnalyzerLoop(st, in, 0, M)                 \* lines 174-178
        s2 == [s1 EXCEPT !.x = FftExecute(s1.X, M)]      \* lines 181-185
    IN  [s2 EXCEPT !.y = [i \in 0..(M-1) |-> CAsIs(s2.x[i])]]      \* line 188

\* lines 191-197: the data path execute selects
ExecutePath(type) == IF type = "ANALYZER" THEN "analyzer" ELSE "synthesizer"

FirpfbchExecute(st, in, M, type) ==
    IF ExecutePath(type) = "analyzer"
    THEN AnalyzerExecute(st, in, M)
    ELSE SynthesizerExecute(st, in, M)

\* ================================================================ gmskdem
\* A received sample is kept in polar form [mag, ph]: magnitude 0 or 1 and
\* phase in units of pi/4.  A phase difference (a float, radians) is the
\* integer number of pi/4 units.
SampleZero == [mag |-> 0, ph |-> 0]
Phasor(p) == [mag |-> 1, ph |-> p]
\* The samples fed to demodulate: unit phasors at 0 and at 5*pi/4.
GSamples == {Phasor(0), Phasor(5)}

\* conjf
Conjf(a) == [mag |-> a.mag, ph |-> 0 - a.ph]
\* complex product
CMul(a, b) == [mag |-> a.mag * b.mag, ph |-> a.ph + b.ph]
\* cargf: the argument in (-pi, pi]; the argument of 0 is 0
Cargf(a) ==
    IF a.mag = 0 THEN 0
    ELSE LET r == a.ph % 8 IN
         IF r > 4 THEN r - 8 ELSE r

\* liquid_firdes_gmskrx: the receive filter's taps h[0..h_len-1]; the values
\* stand in for the designed response (positive, symmetric, peak in the middle)
GmskRxTap(j, n) == 1 + (IF j < n - 1 - j THEN j ELSE n - 1 - j)

\* firfilt_rrrf: a delay line w[0..n-1] of reals, w[0] the newest
RFirClear(n) == [j \in 0..(n-1) |-> 0]
RFirPush(w, v) == [j \in DOMAIN w |-> IF j = 0 THEN v ELSE w[j-1]]
RECURSIVE RDot(_, _, _)
RDot(hh, w, n) == IF n = 0 THEN 0 ELSE RDot(hh, w, n-1) + hh[n-1] * w[n-1]
RFirExecute(hh, w) == RDot(hh, w, Cardinality(DOMAIN hh))

\* lines 67-76: the arguments gmskdem_create accepts (BT is taken in (0,1))
GmskdemValid(k, m) == ~(k < 2) /\ ~(m < 1)

\* lines 135-145: gmskdem_reset
GmskdemReset(qq) ==
    [qq EXCEPT !.x_prime = SampleZero,                             \* line 138
               !.num_symbols_demod = 0,                            \* line 141
               !.filter = RFirClear(qq.h_len)]                     \* line 144

\* lines 78-104: gmskdem_create, for accepted arguments
GmskdemCreate(k, m) ==
    LET n == 2 * k * m + 1 IN                                      \* line 87
    GmskdemReset([k |-> k, m |-> m, h_len |-> n,
                  h |-> [j \in 0..(n-1) |-> GmskRxTap(j, n)],      \* line 91
                  filter |-> RFirClear(n),                         \* line 94
                  x_prime |-> SampleZero,
                  num_symbols_demod |-> 0])

\* variant: the filter output taken after every later sample
Decimate_m(i) == i # 0
\* line 173: the samples of a block after which the filter output is taken
Decimate(i) == i = 0

RECURSIVE DemodLoop(_, _, _)
\* lines 158-180, iterations i .. k-1.  st = [q, d_hat, pushed]: the object,
\* the local d_hat (a fraction) and the phase differences pushed so far.
DemodLoop(st, xin, i) ==
    IF i >= st.q.k THEN st
    ELSE LET phi == Cargf(CMul(Conjf(st.q.x_prime), xin[i]))       \* line 160
             w1 == RFirPush(st.q.filter, phi)                      \* line 164
             q1 == [st.q EXCEPT !.x_prime = xin[i], !.filter = w1] \* line 161
             d1 == IF Decimate(i)
                   THEN [num |-> RFirExecute(q1.h, w1), den |-> q1.k]   \* 176-179
                   ELSE st.d_hat
         IN  DemodLoop([q |-> q1, d_hat |-> d1, pushed |-> Append(st.pushed, phi)],
                       xin, i + 1)

\* line 183: d_hat > 0.0f ? 1 : 0
Decide(d) == IF d.num * d.den > 0 THEN 1 ELSE 0

\* lines 147-184: gmskdem_demodulate; junk is what the local d_hat holds
\* before it is first assigned
GmskdemDemodulate(qq, xin, junk) ==
    LET q0 == [qq EXCEPT !.num_symbols_demod = @ + 1]              \* line 152
        r == DemodLoop([q |-> q0, d_hat |-> [num |-> junk, den |-> 1],
                        pushed |-> <<>>], xin, 0)
    IN  [q |-> r.q, s |-> Decide(r.d_hat), pushed |-> r.pushed]

\* ------------------------------------------------------------------ state
VARIABLES
    phase,      \* "none": no create yet; "live"; "destroyed"; "exited": create called exit(1)
    handle,     \* what create returned: "c", or "null" when nothing was returned
    c,          \* the object's fields num_channels, m, beta, nyquist, type
    bank,       \* c->bank: the M filters
    X,          \* c->X: frequency-domain buffer
    x,          \* c->x: time-domain buffer
    h,          \* create's prototype array h[0..h_len]
    hReads,     \* the indices of h create read
    inp,        \* the caller's input block of the last execute
    y,          \* the caller's output block
    pushLog,    \* the filter pushes of the last execute, in order
    path,       \* the data path the last execute ran
    nexec,      \* execute calls since create
    allocd,     \* what is allocated now
    released,   \* how often each resource was released
    garb,       \* what the allocator left in this instance's fresh buffers
    twin,       \* a second instance, same arguments and inputs, other buffer junk
    q,          \* the gmskdem object: k, m, h_len, h, filter, x_prime, num_symbols_demod
    gx,         \* the sample block of the last demodulate
    sym,        \* the symbol the last demodulate wrote to *_s
    xs,         \* every sample demodulated since the last reset
    phis        \* every phase difference pushed into the filter since the last reset

chvars == <<phase, handle, c, bank, X, x, h, hReads, inp, y, pushLog, path, nexec,
            allocd, released, garb, twin>>
gvars == <<q, gx, sym, xs, phis>>
vars == <<chvars, gvars>>

NoObject == [num_channels |-> 0, m |-> 0, beta |-> "beta", nyquist |-> "NYQUIST",
             type |-> "ANALYZER"]

NoDemod == [k |-> 0, m |-> 0, h_len |-> 0, h |-> <<>>, filter |-> <<>>,
            x_prime |-> SampleZero, num_symbols_demod |-> 0]

\* no channelizer yet
ChannelizerInit ==
    /\ phase = "none"
    /\ handle = "null"
    /\ c = NoObject
    /\ bank = <<>>
    /\ X = <<>>
    /\ x = <<>>
    /\ h = <<>>
    /\ hReads = {}
    /\ inp = <<>>
    /\ y = <<>>
    /\ pushLog = <<>>
    /\ path = "none"
    /\ nexec = 0
    /\ allocd = {}
    /\ released = [r \in AllResources |-> 0]
    /\ garb = 0
    /\ twin = [bank |-> <<>>, X |-> <<>>, x |-> <<>>, y |-> <<>>, log |-> <<>>]

\* firpfbch_create(_num_channels, _m, _beta, _nyquist, _type), lines 36-117
Create(M, m, beta, nyquist, type, g) ==
    /\ phase = "none"
    /\ c' = [num_channels |-> M, m |-> m, beta |-> beta, nyquist |-> nyquist,
             type |-> type]                                        \* lines 43-47
    /\ garb' = g
    /\ UNCHANGED <<inp, y, pushLog, path, nexec, released>>
    /\ UNCHANGED gvars
    /\ IF InvalidDelay(m)
       THEN \* lines 57-60: exit(1)
            /\ phase' = "exited"
            /\ allocd' = CreateEarlyAllocs
            /\ UNCHANGED <<handle, bank, X, x, h, hReads, twin>>
       ELSE IF UnsupportedNyquist(nyquist)
       THEN \* lines 68-71: exit(1); h is declared, never filled
            /\ phase' = "exited"
            /\ allocd' = CreateEarlyAllocs
            /\ UNCHANGED <<handle, bank, X, x, h, hReads, twin>>
       ELSE /\ phase' = "live"
            /\ h' = DesignPrototype(M, m, nyquist)
            /\ hReads' = CreateReads(M, m, type)
            /\ bank' = CreateBank(h', M, m, type, g)
            /\ x' = [i \in 0..(M-1) |-> CJunk(g, M)]               \* line 106
            /\ X' = [i \in 0..(M-1) |-> CJunk(g, M)]               \* line 107
            /\ allocd' = CreateEarlyAllocs \cup CreateLateAllocs(M)
            /\ handle' = "c"                                       \* line 116
            /\ twin' = [bank |-> CreateBank(h', M, m, type, OtherGarbage(g)),
                        X |-> [i \in 0..(M-1) |-> CJunk(OtherGarbage(g), M)],
                        x |-> [i \in 0..(M-1) |-> CJunk(OtherGarbage(g), M)],
                        y |-> <<>>, log |-> <<>>]

\* firpfbch_execute(_c, _x, _y), lines 191-197
Execute(in) ==
    /\ phase = "live"
    /\ nexec < MaxBlocks
    /\ LET M == c.num_channels
           \* the caller's output block holds junk before the call
           y0 == [i \in 0..(M-1) |-> CAsIs(CJunk(garb, M))]
           r == FirpfbchExecute([bank |-> bank, X |-> X, x |-> x, y |-> y0,
                                 log |-> <<>>], in, M, c.type)
           junk == [i \in 0..(M-1) |-> CJunk(OtherGarbage(garb), M)]
           \* the twin's buffers hold other junk before every call
           r2 == FirpfbchExecute([twin EXCEPT !.X = junk, !.x = junk,
                                              !.y = [i \in 0..(M-1) |-> CAsIs(junk[i])],
                                              !.log = <<>>], in, M, c.type)
       IN  /\ bank' = r.bank
           /\ X' = r.X
           /\ x' = r.x
           /\ y' = r.y
           /\ pushLog' = r.log
           /\ twin' = r2
    /\ inp' = in
    /\ path' = ExecutePath(c.type)
    /\ nexec' = nexec + 1
    /\ UNCHANGED <<phase, handle, c, h, hReads, allocd, released, garb>>
    /\ UNCHANGED gvars

\* firpfbch_destroy(_c), lines 119-134
Destroy ==
    /\ phase = "live"
    /\ phase' = "destroyed"
    /\ released' = ReleaseAll(released, DestroyOrder(c.num_channels))
    /\ allocd' = allocd \ {DestroyOrder(c.num_channels)[k] :
                             k \in 1..Len(DestroyOrder(c.num_channels))}
    /\ UNCHANGED <<handle, c, bank, X, x, h, hReads, inp, y, pushLog, path, nexec,
                   garb, twin>>
    /\ UNCHANGED gvars

CreateCall ==
    \E M \in 1..MaxM, m \in 0..MaxDelay, beta \in Betas, nyquist \in NyquistFlags,
       type \in TypeFlags, g \in Garbage :
        Create(M, m, beta, nyquist, type, g)

ExecuteCall == \E in \in Blocks(c.num_channels) : Execute(in)

\* no demodulator
DemodIdle ==
    /\ q = NoDemod
    /\ gx = <<>>
    /\ sym = 0
    /\ xs = <<>>
    /\ phis = <<>>

Init == ChannelizerInit /\ DemodIdle

Next == CreateCall \/ ExecuteCall \/ Destroy

\* The channelizer: create, then execute calls, then destroy.
Spec == Init /\ [][Next]_vars

\* The demodulator right after gmskdem_create(k, m, BT)
DemodInit ==
    /\ \E k \in 2..GMaxK, m \in 1..GMaxDelay :
          /\ GmskdemValid(k, m)
          /\ q = GmskdemCreate(k, m)
    /\ gx = <<>>
    /\ sym = 0
    /\ xs = <<>>
    /\ phis = <<>>

\* gmskdem_demodulate(_q, _x, _s), lines 147-184
Demodulate(xin, junk) ==
    /\ q.num_symbols_demod < GMaxSymbols
    /\ LET r == GmskdemDemodulate(q, xin, junk) IN
          /\ q' = r.q
          /\ sym' = r.s
          /\ phis' = phis \o r.pushed
    /\ gx' = xin
    /\ xs' = xs \o [i \in 1..q.k |-> xin[i-1]]
    /\ UNCHANGED chvars

DemodulateCall ==
    \E xin \in [0..(q.k-1) -> GSamples], junk \in Garbage : Demodulate(xin, junk)

\* gmskdem_reset(_q), lines 135-145
Reset ==
    /\ q' = GmskdemReset(q)
    /\ xs' = <<>>
    /\ phis' = <<>>
    /\ UNCHANGED <<gx, sym>>
    /\ UNCHANGED chvars

GNext == DemodulateCall \/ Reset

\* The demodulator: demodulate and reset calls on a created object.
GInit == ChannelizerInit /\ DemodInit

GSpec == GInit /\ [][GNext]_vars

\* ================================================================= claims
Live == phase = "live"
Ran == phase = "live" /\ nexec >= 1

\* C1: create with filter delay m = 0, or with a filter-kind flag that is
\* neither Nyquist nor RootNyquist, fails for every M and mode: no handle is
\* returned and no branch filter, buffer or transform is built.
C1_InvalidCreateFails ==
    (phase # "none" /\ (c.m = 0 \/ c.nyquist \notin {"NYQUIST", "ROOTNYQUIST"}))
        => /\ phase = "exited"
           /\ handle = "null"
           /\ bank = <<>> /\ X = <<>> /\ x = <<>>
           /\ allocd \cap CreateLateAllocs(MaxM) = {}

\* C1 witness: a create with a valid delay and an unknown filter kind has failed
C1_Witness ==
    phase = "exited" /\ c.m >= 1 /\ c.nyquist = "BADKIND" /\ c.num_channels = MaxM

\* C2: for M >= 1, m >= 1 and L = 2*m*M, create builds M branches of equal
\* length: Synthesizer branch i has L/M taps, tap n = h[i + n*M]; Analyzer
\* branch i has L/M + 1 taps, tap 0 = 0 and tap n+1 = h[i + 1 + n*M]; every
\* index of h read lies inside the designed array h[0..L].
C2_PolyphaseDecomposition ==
    Live =>
        LET M == c.num_channels
            L == 2 * c.m * M
        IN  /\ DOMAIN bank = 0..(M-1)
            /\ DOMAIN h = 0..L
            /\ hReads \subseteq DOMAIN h
            /\ c.type = "SYNTHESIZER" =>
                 \A i \in 0..(M-1) :
                    /\ DOMAIN bank[i].h = 0..((L \div M) - 1)
                    /\ \A n \in 0..((L \div M) - 1) : bank[i].h[n] = h[i + n * M]
            /\ c.type = "ANALYZER" =>
                 \A i \in 0..(M-1) :
                    /\ DOMAIN bank[i].h = 0..(L \div M)
                    /\ bank[i].h[0] = 0
                    /\ \A n \in 0..((L \div M) - 1) : bank[i].h[n+1] = h[i + 1 + n * M]

\* C2 witness: an Analyzer bank whose last branch holds the last tap h[L]
C2_Witness ==
    /\ Live /\ c.type = "ANALYZER" /\ c.num_channels = MaxM /\ c.m = MaxDelay
    /\ 2 * c.m * c.num_channels \in hReads

\* C3: a Synthesizer execute takes M symbols and gives M samples: the input
\* block is copied to X, x is the inverse transform of X, x[i] is pushed into
\* branch i (one push per branch, in increasing i) and y[i] is that branch's
\* filter output divided by M.
C3_SynthesizerExecute ==
    (Ran /\ c.type = "SYNTHESIZER") =>
        LET M == c.num_channels IN
        /\ DOMAIN inp = 0..(M-1) /\ DOMAIN y = 0..(M-1)
        /\ X = inp
        /\ x = FftExecute(inp, M)
        /\ pushLog = [i \in 1..M |-> <<i-1, x[i-1]>>]
        /\ \A i \in 0..(M-1) :
              /\ bank[i].w[0] = x[i]
              /\ y[i] = [num |-> FirExecute(bank[i], M), den |-> M]

\* C3 witness: a second Synthesizer call with a nonzero output sample
C3_Witness ==
    /\ Ran /\ c.type = "SYNTHESIZER" /\ nexec = 2 /\ c.num_channels = MaxM
    /\ \E i \in DOMAIN y : y[i].num # CZero(c.num_channels)

\* C4: an Analyzer execute pushes input[i] into branch M-1-i (each branch one
\* push per call), stores that branch's output at X[i], and the output block
\* is the inverse transform of X with no scaling.
C4_AnalyzerExecute ==
    (Ran /\ c.type = "ANALYZER") =>
        LET M == c.num_channels IN
        /\ DOMAIN inp = 0..(M-1) /\ DOMAIN y = 0..(M-1)
        /\ pushLog = [i \in 1..M |-> <<M - i, inp[i-1]>>]
        /\ \A i \in 0..(M-1) :
              /\ bank[M-1-i].w[0] = inp[i]
              /\ X[i] = FirExecute(bank[M-1-i], M)
        /\ x = FftExecute(X, M)
        /\ \A i \in 0..(M-1) : y[i] = [num |-> x[i], den |-> 1]

\* C4 witness: a second Analyzer call whose two first inputs differ and whose
\* output is nonzero
C4_Witness ==
    /\ Ran /\ c.type = "ANALYZER" /\ nexec = 2 /\ c.num_channels = MaxM
    /\ inp[0] # inp[MaxM - 1]
    /\ \E i \in DOMAIN y : y[i].num # CZero(c.num_channels)

\* A step of the channelizer that clears every delay line and returns the
\* instance to Ready (no execute since), configuration and taps unchanged.
ResetStep ==
    /\ Next
    /\ phase' = "live"
    /\ nexec' = 0
    /\ c' = c
    /\ bank' = [i \in DOMAIN bank |->
                  [bank[i] EXCEPT !.w = [k \in DOMAIN bank[i].w |-> CZero(c.num_channels)]]]

\* C5 (as the claim states it): the channelizer has a Reset operation: from
\* every state reached by execute calls a step exists that clears every delay
\* line and returns the instance to Ready, configuration and taps unchanged.
C5_ResetExposed == Ran => ENABLED ResetStep

\* C7: the output of an execute depends only on the configuration, the delay
\* lines and the input: an instance and its twin, which differ only in what
\* their scratch buffers hold before each call, give the same output blocks
\* and keep the same delay lines.
C7_ScratchIndependent ==
    Live => /\ bank = twin.bank
            /\ nexec >= 1 => (y = twin.y /\ pushLog = twin.log)

\* C7 witness: a second Analyzer call, made with differing scratch contents,
\* with a nonzero output
C7_Witness ==
    /\ Ran /\ nexec = 2 /\ c.num_channels = MaxM /\ c.type = "ANALYZER"
    /\ OtherGarbage(garb) # garb
    /\ \E i \in DOMAIN y : y[i].num # CZero(c.num_channels)

\* C8: what a successful create constructs (M filters, the bank array, both
\* buffers, the plan, the object) stays allocated until destroy, execute
\* acquires and releases nothing, and destroy releases each exactly once and
\* nothing else.
C8_Lifecycle ==
    LET built == CreateEarlyAllocs \cup
                 {ResFilter(i) : i \in 0..(c.num_channels-1)} \cup
                 {ResTime, ResFreq, ResFft}
    IN  /\ Live => (allocd = built /\ \A r \in AllResources : released[r] = 0)
        /\ phase = "destroyed" =>
              /\ allocd = {}
              /\ \A r \in AllResources : released[r] = (IF r \in built THEN 1 ELSE 0)

\* C8 witness: destroyed after execute calls
C8_Witness == phase = "destroyed" /\ nexec = MaxBlocks /\ c.num_channels = MaxM

\* The layout of the bank as built: Analyzer branches have one tap more than
\* h_len / M, the first of them zero.
BuiltLayout ==
    IF \A i \in DOMAIN bank :
          /\ Cardinality(DOMAIN bank[i].h) = ((2 * c.m * c.num_channels) \div c.num_channels) + 1
          /\ bank[i].h[0] = 0
    THEN "analyzer" ELSE "synthesizer"

\* C9 (as the claim states it): for every mode value create accepts, the data
\* path execute runs is the one whose layout create built.
C9_ModeConsistent == Ran => path = BuiltLayout

\* The delay line of the demodulator's filter after the first t pushes
WindowAfter(t, n) == [j \in 0..(n-1) |-> IF t - j >= 1 THEN phis[t - j] ELSE 0]

\* C10: each demodulate call on k samples adds 1 to num_symbols_demod (reset
\* and create set it and x_prime to 0 and clear the filter), pushes one phase
\* difference per sample in order, leaves x_prime at the last sample, and
\* decides the bit on the filter output taken right after the first sample of
\* the block was pushed.
C10_DemodulateStep ==
    LET n == q.num_symbols_demod
        k == q.k
        t == Len(phis)
    IN  /\ Len(xs) = n * k
        /\ t = n * k
        /\ \A j \in 1..t :
              phis[j] = Cargf(CMul(Conjf(IF j = 1 THEN SampleZero ELSE xs[j-1]), xs[j]))
        /\ q.filter = WindowAfter(t, q.h_len)
        /\ q.x_prime = (IF n = 0 THEN SampleZero ELSE gx[k-1])
        /\ n >= 1 =>
              /\ xs[t] = gx[k-1]
              /\ sym = (IF RFirExecute(q.h, WindowAfter((n-1) * k + 1, q.h_len)) > 0
                        THEN 1 ELSE 0)

\* C10 witness: a second call whose bit differs from the sign of the filter
\* output after the whole block
C10_Witness ==
    /\ q.num_symbols_demod = 2
    /\ sym # (IF RFirExecute(q.h, q.filter) > 0 THEN 1 ELSE 0)

====
